---- MODULE Spec2Model ----
(***************************************************************************)
(* Clipboard history of copymate/src-tauri/src/lib.rs: the shared history  *)
(* deque and ignore flag (each behind its own Mutex), the Tauri commands   *)
(* that act on them, and the polling loop spawned by                       *)
(* start_clipboard_monitoring.                                             *)
(*                                                                         *)
(* A string is a sequence of one-character strings, so that trim() and     *)
(* string comparison are computed rather than assumed.  Every thread step  *)
(* below is one access to shared state (a lock, the OS clipboard, the      *)
(* clock, the event sink) together with the thread-local code around it.   *)
(*                                                                         *)
(* No thread panics while it holds a guard, so neither Mutex is poisoned   *)
(* and the Err branches of lock() are not taken.  get_clipboard_text only  *)
(* reads the clipboard and is left out.  emitted records the calls of      *)
(* emit; their delivery to listeners is outside the program.               *)
(***************************************************************************)
EXTENDS Integers, Sequences, FiniteSets, TLC

\* ------------------------------------------------------------------ bounds

\* Capacity of the history.  The source keeps 100 items (lib.rs:84, :158); the
\* model keeps the same code with a smaller capacity so that eviction happens.
MAX == 2

\* Number of monitor loops that start_clipboard_monitoring can spawn in a run.
MaxMonitors == 2

\* Number of command invocations and of external clipboard changes in a run.
MaxOps == 4

\* The same number in the runs checked for what eventually happens.
MaxFairOps == 3

\* Number of threads that run commands (a command runs to its end on one).
MaxCommands == 1

\* The clock (whole seconds since the epoch, offset by the first second).
MaxClock == 1

\* ----------------------------------------------------------------- strings

WhiteSpace == {" ", "\t", "\n"}

Empty == <<>>
Blank == <<" ">>
A == <<"a">>
B == <<"b">>

\* The strings that commands receive and that the user copies.
Contents == {Empty, Blank, A, B}

RECURSIVE trim_start(_)
trim_start(s) ==
    IF s = <<>> THEN s
    ELSE IF Head(s) \in WhiteSpace THEN trim_start(Tail(s)) ELSE s

RECURSIVE trim_end(_)
trim_end(s) ==
    IF s = <<>> THEN s
    ELSE IF s[Len(s)] \in WhiteSpace THEN trim_end(SubSeq(s, 1, Len(s) - 1)) ELSE s

trim(s) == trim_end(trim_start(s))

\* Variant: is_empty() without trim().
is_empty(s) == s = <<>>

\* content.trim().is_empty()
trim_is_empty(s) == trim(s) = <<>>

\* ------------------------------------------------------------------ threads

Monitors == {<<"monitor", i>> : i \in 1..MaxMonitors}
Commands == {<<"command", i>> : i \in 1..MaxCommands}
Threads == Monitors \cup Commands
NoThread == <<"none", 0>>

VARIABLES
    history,        \* the VecDeque<ClipboardItem>, front first
    history_lock,   \* holder of the history Mutex, or NoThread
    ignore,         \* the bool behind IgnoreNextClipboard
    ignore_lock,    \* holder of the ignore-flag Mutex, or NoThread
    clipboard,      \* the OS clipboard text
    clock,          \* SystemTime::now() in seconds
    pc,             \* position of every thread
    content,        \* current_content of a monitor, the content argument of a command
    last,           \* last_clipboard_content of a monitor
    timestamp,      \* the timestamp local of a thread
    ret,            \* what the last command of a thread returned
    emitted,        \* payloads of the "clipboard-updated" events, in emit order
    ops,            \* command invocations and external changes so far
    \* history variables, read by no action
    inserted,       \* contents pushed since the history was created or last cleared
    mon_pushed,     \* contents pushed by monitor loops, in push order
    clip_src,       \* who set the clipboard: "init", "user" or "copy"
    content_src,    \* clip_src at the time a monitor read its current_content
    gate,           \* last event on the ignore flag: "none", "arm", "hit", "miss"
    arms,           \* number of times copy_to_clipboard set the flag
    hits,           \* number of monitor checks that found the flag set
    write_failed,   \* some write_text of copy_to_clipboard has failed
    armed           \* the running copy_to_clipboard of a thread has set the flag

vars == <<history, history_lock, ignore, ignore_lock, clipboard, clock, pc, content,
          last, timestamp, ret, emitted, ops, inserted, mon_pushed, clip_src,
          content_src, gate, arms, hits, write_failed, armed>>

shared == <<history, history_lock, ignore, ignore_lock, clipboard, clock, emitted>>
locals == <<content, last, timestamp, ret>>
ghosts == <<inserted, mon_pushed, clip_src, content_src, gate, arms, hits, write_failed, armed>>

\* ------------------------------------------------------------- the history

\* Variants of the duplicate check: against any entry, and against the back.
is_duplicate_anywhere(h, c) == \E i \in 1..Len(h) : h[i].content = c
is_duplicate_of_back(h, c) == h # <<>> /\ h[Len(h)].content = c

\* if let Some(latest) = history_guard.front() { if latest.content == content
is_duplicate(h, c) == h # <<>> /\ Head(h).content = c

\* ClipboardItem { id: timestamp + history_guard.len(), content, timestamp, "text" }
new_item(h, c, t) ==
    [id |-> t + Len(h), content |-> c, timestamp |-> t, content_type |-> "text"]

\* Variant: push_back.
push_back(h, item) == Append(h, item)

\* history_guard.push_front(item)
push_front(h, item) == <<item>> \o h

\* Variants of the cap: one item late, and pop_front.
pop_back_over_max_plus_one(h) == IF Len(h) > MAX + 1 THEN SubSeq(h, 1, Len(h) - 1) ELSE h
pop_front_over_max(h) == IF Len(h) > MAX THEN Tail(h) ELSE h

\* if history_guard.len() > 100 { history_guard.pop_back(); }
pop_back_over_max(h) == IF Len(h) > MAX THEN SubSeq(h, 1, Len(h) - 1) ELSE h

contents_of(h) == [i \in 1..Len(h) |-> h[i].content]

\* ---------------------------------------------------------------- initial

Init ==
    /\ history = <<>>
    /\ history_lock = NoThread
    /\ ignore = FALSE
    /\ ignore_lock = NoThread
    /\ clipboard \in Contents
    /\ clock = 0
    /\ pc = [t \in Threads |-> IF t \in Monitors THEN "off" ELSE "idle"]
    /\ content = [t \in Threads |-> Empty]
    /\ last = [t \in Monitors |-> Empty]
    /\ timestamp = [t \in Threads |-> 0]
    /\ ret = [t \in Commands |-> <<"none">>]
    /\ emitted = <<>>
    /\ ops = 0
    /\ inserted = <<>>
    /\ mon_pushed = <<>>
    /\ clip_src = "init"
    /\ content_src = [t \in Monitors |-> "init"]
    /\ gate = "none"
    /\ arms = 0
    /\ hits = 0
    /\ write_failed = FALSE
    /\ armed = [t \in Commands |-> FALSE]

\* ------------------------------------------------------------ the ignore flag

\* Variant: the flag is never honoured.
never_ignore(flag) == FALSE

\* Variant: every content read is taken for the program's own write.
always_ignore(flag) == TRUE

\* let ignore = *ignore_guard; ... should_ignore
should_ignore(flag) == flag

\* Variant: the flag is read and never reset.
flag_kept_after_check(flag) == flag

\* if ignore { *ignore_guard = false; }
flag_after_check(flag) == IF flag THEN FALSE ELSE flag

\* *ignore_guard = true;
flag_after_arm(flag) == TRUE

\* Variant: a failed write takes the flag back.
flag_reset_after_failed_write(flag) == FALSE

\* .map_err(..)? on write_text returns the error; the flag is not touched.
flag_after_failed_write(flag) == flag

\* ------------------------------------------------- start_clipboard_monitoring

\* The loops already spawned.
running == {m \in Monitors : pc[m] # "off"}

\* thread::spawn(move || { let mut last_clipboard_content = String::new(); loop {..} })
\* Nothing in the command looks at the loops spawned before.
spawn_allowed(n) == TRUE

start_clipboard_monitoring(t) ==
    /\ pc[t] = "idle"
    /\ ops < MaxOps
    /\ Cardinality(running) < MaxMonitors
    /\ spawn_allowed(Cardinality(running))
    /\ LET m == <<"monitor", Cardinality(running) + 1>> IN
        /\ pc' = [pc EXCEPT ![m] = "poll"]
        /\ last' = [last EXCEPT ![m] = Empty]
    /\ ret' = [ret EXCEPT ![t] = <<"ok">>]
    /\ ops' = ops + 1
    /\ UNCHANGED <<shared, content, timestamp, ghosts>>

\* The end of an iteration of the loop, or of a command: its locals are dropped.
dropped(f, t) == [f EXCEPT ![t] = Empty]
unset(f, t) == [f EXCEPT ![t] = 0]
forgotten(f, t) == [f EXCEPT ![t] = "init"]

\* thread::sleep(500ms); read_text() fails: the iteration ends.
MonReadFail(m) ==
    /\ pc[m] = "poll"
    /\ UNCHANGED vars

\* read_text() gives the last content or a blank one: the iteration ends.
MonReadSame(m) ==
    /\ pc[m] = "poll"
    /\ ~(clipboard # last[m] /\ ~trim_is_empty(clipboard))
    /\ UNCHANGED vars

\* read_text() gives a new, non-blank content.
MonReadChanged(m) ==
    /\ pc[m] = "poll"
    /\ clipboard # last[m] /\ ~trim_is_empty(clipboard)
    /\ content' = [content EXCEPT ![m] = clipboard]
    /\ content_src' = [content_src EXCEPT ![m] = clip_src]
    /\ pc' = [pc EXCEPT ![m] = "lock_ignore"]
    /\ UNCHANGED <<shared, last, timestamp, ret, ops, inserted, mon_pushed, clip_src,
                   gate, arms, hits, write_failed, armed>>

\* Variant: the guard of the flag lives on after the block of should_ignore.
guard_kept_after_check(m) == m

\* The guard of the flag is dropped at the end of the block of should_ignore.
guard_after_check(m) == NoThread

\* ignore_flag_clone.lock()
MonLockIgnore(m) ==
    /\ pc[m] = "lock_ignore"
    /\ ignore_lock = NoThread
    /\ ignore_lock' = m
    /\ pc' = [pc EXCEPT ![m] = "check_ignore"]
    /\ UNCHANGED <<history, history_lock, ignore, clipboard, clock, emitted, locals, ops,
                   ghosts>>

\* The block of should_ignore, and `if should_ignore { last = current; continue; }`.
MonCheckIgnore(m) ==
    /\ pc[m] = "check_ignore"
    /\ ignore_lock = m
    /\ ignore' = flag_after_check(ignore)
    /\ ignore_lock' = guard_after_check(m)
    /\ IF should_ignore(ignore)
       THEN /\ last' = [last EXCEPT ![m] = content[m]]
            /\ pc' = [pc EXCEPT ![m] = "poll"]
            /\ gate' = "hit"
            /\ hits' = hits + 1
            /\ content' = dropped(content, m)
            /\ UNCHANGED content_src
       ELSE /\ pc' = [pc EXCEPT ![m] = "timestamp"]
            /\ gate' = "miss"
            /\ UNCHANGED <<last, hits, content, content_src>>
    /\ UNCHANGED <<history, history_lock, clipboard, clock, emitted, timestamp,
                   ret, ops, inserted, mon_pushed, clip_src, arms, write_failed, armed>>

\* let timestamp = SystemTime::now()...as_secs();
MonTimestamp(m) ==
    /\ pc[m] = "timestamp"
    /\ timestamp' = [timestamp EXCEPT ![m] = clock]
    /\ pc' = [pc EXCEPT ![m] = "lock_history"]
    /\ UNCHANGED <<shared, content, last, ret, ops, ghosts>>

\* if let Ok(mut history_guard) = history_clone.lock()
MonLockHistory(m) ==
    /\ pc[m] = "lock_history"
    /\ history_lock = NoThread
    /\ history_lock' = m
    /\ pc' = [pc EXCEPT ![m] = "front"]
    /\ UNCHANGED <<history, ignore, ignore_lock, clipboard, clock, emitted, locals, ops,
                   ghosts>>

\* The loop's own copy of the check of the front:
\* if let Some(latest) = history_guard.front() { if latest.content == current_content
mon_is_duplicate(h, current_content) ==
    /\ h # <<>>
    /\ h[1].content = current_content

\* Variant: the loop computes the id from the length after the push.
mon_new_item_len_after(h, current_content, t) ==
    [id |-> t + Len(h) + 1, content |-> current_content, timestamp |-> t,
     content_type |-> "text"]

\* The loop's own copy of the construction of the entry:
\* let id = timestamp + history_guard.len() as u64; let item = ClipboardItem { .. }
mon_new_item(h, current_content, t) ==
    [id |-> t + Len(h), content |-> current_content, timestamp |-> t,
     content_type |-> "text"]

\* The loop's own copy of the cap:
\* if history_guard.len() > 100 { history_guard.pop_back(); }
mon_pop_back_over_max(h) ==
    IF Len(h) > MAX THEN SubSeq(h, 1, Len(h) - 1) ELSE h

\* The front is the content read: `continue`, which drops the guard and skips the
\* assignment to last_clipboard_content.
MonSkipDuplicate(m) ==
    /\ pc[m] = "front"
    /\ history_lock = m
    /\ mon_is_duplicate(history, content[m])
    /\ history_lock' = NoThread
    /\ pc' = [pc EXCEPT ![m] = "poll"]
    /\ content' = dropped(content, m)
    /\ timestamp' = unset(timestamp, m)
    /\ content_src' = forgotten(content_src, m)
    /\ UNCHANGED <<history, ignore, ignore_lock, clipboard, clock, emitted, last, ret,
                   ops, inserted, mon_pushed, clip_src, gate, arms, hits, write_failed, armed>>

\* history_guard.push_front(item)
MonPush(m) ==
    /\ pc[m] = "front"
    /\ history_lock = m
    /\ ~mon_is_duplicate(history, content[m])
    /\ history' = push_front(history, mon_new_item(history, content[m], timestamp[m]))
    /\ inserted' = Append(inserted, content[m])
    /\ mon_pushed' = Append(mon_pushed, content[m])
    /\ pc' = [pc EXCEPT ![m] = "cap"]
    /\ UNCHANGED <<history_lock, ignore, ignore_lock, clipboard, clock, emitted, locals,
                   ops, clip_src, content_src, gate, arms, hits, write_failed, armed>>

\* if history_guard.len() > 100 { history_guard.pop_back(); }
MonCap(m) ==
    /\ pc[m] = "cap"
    /\ history_lock = m
    /\ history' = mon_pop_back_over_max(history)
    /\ pc' = [pc EXCEPT ![m] = "emit"]
    /\ UNCHANGED <<history_lock, ignore, ignore_lock, clipboard, clock, emitted, locals,
                   ops, ghosts>>

\* Variant: the event carries the content seen before this one.
payload_last(current_content, last_clipboard_content) == last_clipboard_content

\* The payload of app_clone.emit("clipboard-updated", &current_content)
payload(current_content, last_clipboard_content) == current_content

\* emit, the end of the guard's block, then last_clipboard_content = current_content.
MonEmit(m) ==
    /\ pc[m] = "emit"
    /\ history_lock = m
    /\ emitted' = Append(emitted, payload(content[m], last[m]))
    /\ history_lock' = NoThread
    /\ last' = [last EXCEPT ![m] = content[m]]
    /\ pc' = [pc EXCEPT ![m] = "poll"]
    /\ content' = dropped(content, m)
    /\ timestamp' = unset(timestamp, m)
    /\ content_src' = forgotten(content_src, m)
    /\ UNCHANGED <<history, ignore, ignore_lock, clipboard, clock, ret, ops, inserted,
                   mon_pushed, clip_src, gate, arms, hits, write_failed, armed>>

Monitor(m) ==
    \/ MonReadFail(m)
    \/ MonReadSame(m)
    \/ MonReadChanged(m)
    \/ MonLockIgnore(m)
    \/ MonCheckIgnore(m)
    \/ MonTimestamp(m)
    \/ MonLockHistory(m)
    \/ MonSkipDuplicate(m)
    \/ MonPush(m)
    \/ MonCap(m)
    \/ MonEmit(m)

\* --------------------------------------------------------------- commands

\* get_clipboard_history: history.lock()
CallGetHistory(t) ==
    /\ pc[t] = "idle"
    /\ ops < MaxOps
    /\ ops' = ops + 1
    /\ pc' = [pc EXCEPT ![t] = "get_lock"]
    /\ ret' = [ret EXCEPT ![t] = <<"none">>]
    /\ UNCHANGED <<shared, content, last, timestamp, ghosts>>

GetLock(t) ==
    /\ pc[t] = "get_lock"
    /\ history_lock = NoThread
    /\ history_lock' = t
    /\ pc' = [pc EXCEPT ![t] = "get_read"]
    /\ UNCHANGED <<history, ignore, ignore_lock, clipboard, clock, emitted, locals, ops,
                   ghosts>>

\* Ok(history_guard.iter().cloned().collect())
snapshot(h) == h

GetRead(t) ==
    /\ pc[t] = "get_read"
    /\ history_lock = t
    /\ ret' = [ret EXCEPT ![t] = <<"history", snapshot(history)>>]
    /\ history_lock' = NoThread
    /\ pc' = [pc EXCEPT ![t] = "idle"]
    /\ UNCHANGED <<history, ignore, ignore_lock, clipboard, clock, emitted, content, last,
                   timestamp, ops, ghosts>>

\* add_to_history -> add_item_to_history: blank content returns at once.
AddBlank(t, c) ==
    /\ pc[t] = "idle"
    /\ ops < MaxOps
    /\ trim_is_empty(c)
    /\ ops' = ops + 1
    /\ ret' = [ret EXCEPT ![t] = <<"ok">>]
    /\ UNCHANGED <<shared, pc, content, last, timestamp, ghosts>>

\* add_item_to_history up to the timestamp.
CallAdd(t, c) ==
    /\ pc[t] = "idle"
    /\ ops < MaxOps
    /\ ~trim_is_empty(c)
    /\ ops' = ops + 1
    /\ content' = [content EXCEPT ![t] = c]
    /\ timestamp' = [timestamp EXCEPT ![t] = clock]
    /\ pc' = [pc EXCEPT ![t] = "add_lock"]
    /\ ret' = [ret EXCEPT ![t] = <<"none">>]
    /\ UNCHANGED <<shared, last, ghosts>>

AddLock(t) ==
    /\ pc[t] = "add_lock"
    /\ history_lock = NoThread
    /\ history_lock' = t
    /\ pc' = [pc EXCEPT ![t] = "add_front"]
    /\ UNCHANGED <<history, ignore, ignore_lock, clipboard, clock, emitted, locals, ops,
                   ghosts>>

\* return Ok(()) on a duplicate of the front.
AddSkipDuplicate(t) ==
    /\ pc[t] = "add_front"
    /\ history_lock = t
    /\ is_duplicate(history, content[t])
    /\ history_lock' = NoThread
    /\ ret' = [ret EXCEPT ![t] = <<"ok">>]
    /\ pc' = [pc EXCEPT ![t] = "idle"]
    /\ content' = dropped(content, t)
    /\ timestamp' = unset(timestamp, t)
    /\ UNCHANGED <<history, ignore, ignore_lock, clipboard, clock, emitted, last, ops,
                   ghosts>>

AddPush(t) ==
    /\ pc[t] = "add_front"
    /\ history_lock = t
    /\ ~is_duplicate(history, content[t])
    /\ history' = push_front(history, new_item(history, content[t], timestamp[t]))
    /\ inserted' = Append(inserted, content[t])
    /\ pc' = [pc EXCEPT ![t] = "add_cap"]
    /\ UNCHANGED <<history_lock, ignore, ignore_lock, clipboard, clock, emitted, locals,
                   ops, mon_pushed, clip_src, content_src, gate, arms, hits, write_failed, armed>>

AddCap(t) ==
    /\ pc[t] = "add_cap"
    /\ history_lock = t
    /\ history' = pop_back_over_max(history)
    /\ history_lock' = NoThread
    /\ ret' = [ret EXCEPT ![t] = <<"ok">>]
    /\ pc' = [pc EXCEPT ![t] = "idle"]
    /\ content' = dropped(content, t)
    /\ timestamp' = unset(timestamp, t)
    /\ UNCHANGED <<ignore, ignore_lock, clipboard, clock, emitted, last, ops, ghosts>>

\* clear_clipboard_history
CallClear(t) ==
    /\ pc[t] = "idle"
    /\ ops < MaxOps
    /\ ops' = ops + 1
    /\ pc' = [pc EXCEPT ![t] = "clear_lock"]
    /\ ret' = [ret EXCEPT ![t] = <<"none">>]
    /\ UNCHANGED <<shared, content, last, timestamp, ghosts>>

ClearLock(t) ==
    /\ pc[t] = "clear_lock"
    /\ history_lock = NoThread
    /\ history_lock' = t
    /\ pc' = [pc EXCEPT ![t] = "clear"]
    /\ UNCHANGED <<history, ignore, ignore_lock, clipboard, clock, emitted, locals, ops,
                   ghosts>>

\* Variant: the newest entry survives.
cleared_but_front(h) == IF h = <<>> THEN h ELSE <<h[1]>>

\* history_guard.clear()
cleared(h) == <<>>

Clear(t) ==
    /\ pc[t] = "clear"
    /\ history_lock = t
    /\ history' = cleared(history)
    /\ inserted' = <<>>
    /\ history_lock' = NoThread
    /\ ret' = [ret EXCEPT ![t] = <<"ok">>]
    /\ pc' = [pc EXCEPT ![t] = "idle"]
    /\ UNCHANGED <<ignore, ignore_lock, clipboard, clock, emitted, content, last,
                   timestamp, ops, mon_pushed, clip_src, content_src, gate, arms, hits,
                   write_failed, armed>>

\* Variant: the write comes first and nothing sets the flag.
write_without_flag == "copy_write"

\* copy_to_clipboard begins with the block that locks the flag and sets it.
first_step_of_copy == "copy_lock"

CallCopy(t, c) ==
    /\ pc[t] = "idle"
    /\ ops < MaxOps
    /\ ops' = ops + 1
    /\ content' = [content EXCEPT ![t] = c]
    /\ pc' = [pc EXCEPT ![t] = first_step_of_copy]
    /\ ret' = [ret EXCEPT ![t] = <<"none">>]
    /\ UNCHANGED <<shared, last, timestamp, ghosts>>

CopyLock(t) ==
    /\ pc[t] = "copy_lock"
    /\ ignore_lock = NoThread
    /\ ignore_lock' = t
    /\ pc' = [pc EXCEPT ![t] = "copy_arm"]
    /\ UNCHANGED <<history, history_lock, ignore, clipboard, clock, emitted, locals, ops,
                   ghosts>>

CopyArm(t) ==
    /\ pc[t] = "copy_arm"
    /\ ignore_lock = t
    /\ ignore' = flag_after_arm(ignore)
    /\ ignore_lock' = NoThread
    /\ gate' = "arm"
    /\ arms' = arms + 1
    /\ armed' = [armed EXCEPT ![t] = TRUE]
    /\ pc' = [pc EXCEPT ![t] = "copy_write"]
    /\ UNCHANGED <<history, history_lock, clipboard, clock, emitted, locals, ops,
                   inserted, mon_pushed, clip_src, content_src, hits, write_failed>>

\* app.clipboard().write_text(content) succeeds.
CopyWrite(t) ==
    /\ pc[t] = "copy_write"
    /\ clipboard' = content[t]
    /\ clip_src' = "copy"
    /\ ret' = [ret EXCEPT ![t] = <<"ok">>]
    /\ pc' = [pc EXCEPT ![t] = "idle"]
    /\ content' = dropped(content, t)
    /\ armed' = [armed EXCEPT ![t] = FALSE]
    /\ UNCHANGED <<history, history_lock, ignore, ignore_lock, clock, emitted, last,
                   timestamp, ops, inserted, mon_pushed, content_src, gate, arms, hits,
                   write_failed>>

\* write_text fails: Err("Failed to write to clipboard: ..").
CopyWriteFail(t) ==
    /\ pc[t] = "copy_write"
    /\ write_failed' = TRUE
    /\ ret' = [ret EXCEPT ![t] = <<"err">>]
    /\ pc' = [pc EXCEPT ![t] = "idle"]
    /\ content' = dropped(content, t)
    /\ armed' = [armed EXCEPT ![t] = FALSE]
    /\ ignore' = flag_after_failed_write(ignore)
    /\ UNCHANGED <<history, history_lock, ignore_lock, clipboard, clock, emitted, last,
                   timestamp, ops, inserted, mon_pushed, clip_src, content_src, gate, arms,
                   hits>>

Command(t) ==
    \/ start_clipboard_monitoring(t)
    \/ CallGetHistory(t)
    \/ GetLock(t)
    \/ GetRead(t)
    \/ \E c \in Contents : AddBlank(t, c)
    \/ \E c \in Contents : CallAdd(t, c)
    \/ AddLock(t)
    \/ AddSkipDuplicate(t)
    \/ AddPush(t)
    \/ AddCap(t)
    \/ CallClear(t)
    \/ ClearLock(t)
    \/ Clear(t)
    \/ \E c \in Contents : CallCopy(t, c)
    \/ CopyLock(t)
    \/ CopyArm(t)
    \/ CopyWrite(t)
    \/ CopyWriteFail(t)

\* ------------------------------------------------------------ environment

\* The user copies a text in some other program.
UserCopy(c) ==
    /\ ops < MaxOps
    /\ ops' = ops + 1
    /\ clipboard' = c
    /\ clip_src' = "user"
    /\ UNCHANGED <<history, history_lock, ignore, ignore_lock, clock, emitted, pc, locals,
                   inserted, mon_pushed, content_src, gate, arms, hits, write_failed, armed>>

\* A second passes.
Tick ==
    /\ clock < MaxClock
    /\ clock' = clock + 1
    /\ UNCHANGED <<history, history_lock, ignore, ignore_lock, clipboard, emitted, pc,
                   locals, ops, ghosts>>

Next ==
    \/ \E m \in Monitors : Monitor(m)
    \/ \E t \in Commands : Command(t)
    \/ \E c \in Contents : UserCopy(c)
    \/ Tick

Spec == Init /\ [][Next]_vars

\* The steps of a command that has been invoked.
CommandProgress(t) ==
    \/ GetLock(t) \/ GetRead(t)
    \/ AddLock(t) \/ AddSkipDuplicate(t) \/ AddPush(t) \/ AddCap(t)
    \/ ClearLock(t) \/ Clear(t)
    \/ CopyLock(t) \/ CopyArm(t) \/ CopyWrite(t) \/ CopyWriteFail(t)

\* The steps of a monitor loop but for the polls that end at once.
MonitorProgress(m) ==
    \/ MonReadChanged(m) \/ MonLockIgnore(m) \/ MonCheckIgnore(m) \/ MonTimestamp(m)
    \/ MonLockHistory(m) \/ MonSkipDuplicate(m) \/ MonPush(m) \/ MonCap(m)
    \/ MonEmit(m)

\* The runs with at most MaxFairOps invocations and external changes.
FairNext == Next /\ ops' <= MaxFairOps

\* Every thread keeps running, and a thread blocked in lock() gets the Mutex at
\* one of its releases: a loop sleeps 500 ms with no lock held in every iteration
\* and a command holds a lock for one critical section.
FairSpec ==
    /\ Init /\ [][FairNext]_vars
    /\ \A t \in Commands : SF_vars(CommandProgress(t))
    /\ \A m \in Monitors : SF_vars(MonitorProgress(m))

\* As FairSpec, with a thread owed a step only while it stays able to take one.
WeakFairSpec ==
    /\ Init /\ [][FairNext]_vars
    /\ \A t \in Commands : WF_vars(CommandProgress(t))
    /\ \A m \in Monitors : WF_vars(MonitorProgress(m))

TypeOK ==
    /\ ignore \in BOOLEAN
    /\ clipboard \in Contents
    /\ history_lock \in Threads \cup {NoThread}
    /\ ignore_lock \in Threads \cup {NoThread}
    /\ ops \in 0..MaxOps
    /\ clock \in 0..MaxClock

\* ================================================================ claims

\* A string with a character that is not white space.
NonBlank(s) == \E i \in 1..Len(s) : s[i] \notin WhiteSpace

\* The first n elements of a sequence (all of them when it is shorter).
Take(q, n) == SubSeq(q, 1, IF Len(q) < n THEN Len(q) ELSE n)

Reverse(q) == [i \in 1..Len(q) |-> q[Len(q) + 1 - i]]

\* The threads between push_front and the cap.
Capping == {t \in Threads : pc[t] \in {"cap", "add_cap"}}

\* C1: the history has at most MAX entries whenever its lock is free or held by a
\* thread that is not between its own push_front and pop_back, and every snapshot
\* returned by get_clipboard_history has at most MAX entries; the length MAX + 1
\* exists only under the lock of the pushing thread.
C1_LengthAtMostMax ==
    /\ Len(history) <= MAX + 1
    /\ Len(history) > MAX => history_lock \in Capping
    /\ \A t \in Commands : ret[t][1] = "history" => Len(ret[t][2]) <= MAX

\* A snapshot of MAX entries is returned after more than MAX pushes.
C1_Witness ==
    \E t \in Commands :
        /\ ret[t][1] = "history"
        /\ Len(ret[t][2]) = MAX
        /\ Len(inserted) > MAX

\* C2: the step of add_item_to_history that decides on the content x pushes x at
\* the front, leaving the older entries as they were, when the history is empty or
\* its front content differs from x (even if a deeper entry equals x), and leaves
\* the history unchanged otherwise; a blank x never gets to that step.
C2_InsertIffNotFront ==
    [][\A t \in Commands :
        /\ pc'[t] \in {"add_lock", "add_front", "add_cap"} => NonBlank(content'[t])
        /\ (pc[t] = "add_front" /\ pc'[t] # "add_front") =>
              IF history = <<>> \/ history[1].content # content[t]
              THEN /\ Len(history') = Len(history) + 1
                   /\ history'[1].content = content[t]
                   /\ Tail(history') = history
              ELSE history' = history /\ pc'[t] = "idle"
      ]_vars

\* "a", "b", "a" are in the history, newest first: the second "a" was pushed.
C2_Witness ==
    /\ Len(history) >= 3
    /\ history[1].content = A /\ history[2].content = B /\ history[3].content = A
    /\ \E t \in Commands : pc[t] = "add_cap"

\* C3: the snapshot that get_clipboard_history returns is the contents of the last
\* min(n, MAX) pushes since the history was created or last cleared, newest first.
C3_SnapshotIsLastPushes ==
    [][\A t \in Commands :
        (pc[t] = "get_read" /\ pc'[t] = "idle") =>
            /\ ret'[t][1] = "history"
            /\ contents_of(ret'[t][2]) = Take(Reverse(inserted), MAX)
      ]_vars

\* After MAX + 1 pushes a snapshot holds the last MAX of them: the oldest is gone.
C3_Witness ==
    \E t \in Commands :
        /\ ret[t][1] = "history"
        /\ Len(inserted) = MAX + 1
        /\ contents_of(ret[t][2]) = Take(Reverse(inserted), MAX)
        /\ ret[t][2] = history

\* C4: no two adjacent entries of the history have the same content, and no entry
\* has an empty or white-space-only content.
C4_NoAdjacentDuplicates ==
    /\ \A i \in 1..Len(history) : NonBlank(history[i].content)
    /\ \A i \in 1..(Len(history) - 1) : history[i].content # history[i + 1].content

\* Two loops run, a loop has pushed, an entry has been evicted.
C4_Witness ==
    /\ Cardinality(running) = 2
    /\ Len(mon_pushed) > MAX
    /\ Len(history) = MAX
    /\ history_lock = NoThread

\* C5: a check of the flag by a monitor finds it set exactly when copy_to_clipboard
\* has set it since the last check, however many times; and the checks that found
\* it set are never more than the times it was set.
C5_SingleSlot ==
    [][\A m \in Monitors :
        (pc[m] = "check_ignore" /\ pc'[m] # "check_ignore") =>
            /\ (pc'[m] = "poll") <=> (gate = "arm")
            /\ ~ignore'
            /\ hits' <= arms'
      ]_vars

\* Set twice, found set once, then found not set.
C5_Witness == arms = 2 /\ hits = 1 /\ gate = "miss"

\* C6: a monitor loop never pushes (and so never announces) a content that it read
\* from the clipboard as written there by copy_to_clipboard.
C6_OwnWriteNotRecorded ==
    \A m \in Monitors : pc[m] \in {"cap", "emit"} => content_src[m] # "copy"

\* C7: while no write of copy_to_clipboard has failed, a check that finds the flag
\* set is made for a content that copy_to_clipboard wrote to the clipboard.
C7_OnlyOwnWriteSuppressed ==
    [][\A m \in Monitors :
        (pc[m] = "check_ignore" /\ pc'[m] = "poll" /\ ~write_failed) =>
            content_src[m] = "copy"
      ]_vars

\* C8: at most one monitor loop runs.
C8_AtMostOneLoop == Cardinality(running) <= 1

\* C9: when a monitor emits the event with payload c, the front entry of the
\* history has content c, before and after the step, under the emitter's lock.
C9_EntryBeforeEvent ==
    [][emitted' # emitted =>
        /\ Len(emitted') = Len(emitted) + 1
        /\ history # <<>>
        /\ history[1].content = emitted'[Len(emitted')]
        /\ history' = history
        /\ history_lock \in Monitors
      ]_vars

\* An event was emitted for an entry pushed when the history was full.
C9_Witness ==
    /\ emitted # <<>>
    /\ Len(inserted) > MAX
    /\ Len(emitted) = Len(mon_pushed)
    /\ history[1].content = emitted[Len(emitted)]
    /\ mon_pushed[Len(mon_pushed)] = inserted[Len(inserted)]

\* The monitors between their push_front and their emit.
Announcing == {m \in Monitors : pc[m] \in {"cap", "emit"}}

\* C10: the payloads emitted are the contents pushed by the monitor loops, in the
\* same order, but for the one push whose event is still to be emitted under the
\* pusher's lock.
C10_EventsArePushes ==
    /\ Cardinality(Announcing) <= 1
    /\ \A m \in Announcing : mon_pushed = Append(emitted, content[m])
    /\ Announcing = {} => mon_pushed = emitted

\* Two loops have each pushed and announced, with different contents.
C10_Witness ==
    /\ Len(emitted) >= 2
    /\ emitted[1] # emitted[2]
    /\ Cardinality(running) = 2
    /\ hits >= 1
    /\ Announcing = {}

\* C11: a thread of copy_to_clipboard writes the clipboard only after it has set
\* the flag and released the flag's lock, and the clipboard comes to hold a text
\* written by copy_to_clipboard only by such a write.
C11_ArmBeforeWrite ==
    [][/\ \A t \in Commands :
            /\ (pc[t] = "copy_write" /\ pc'[t] # "copy_write") =>
                    armed[t] /\ ignore_lock # t
            /\ (~armed[t] /\ armed'[t]) =>
                    ignore' /\ ignore_lock' # t /\ clipboard' = clipboard
       /\ (clip_src' = "copy" /\ (clip_src # "copy" \/ clipboard' # clipboard)) =>
            \E t \in Commands :
                pc[t] = "copy_write" /\ armed[t] /\ clipboard' = content[t]
      ]_vars

\* A text written by copy_to_clipboard is on the clipboard and the flag set for
\* it has been found set by a monitor.
C11_Witness == clip_src = "copy" /\ gate = "hit" /\ arms = 1

\* C12: a write of copy_to_clipboard that fails returns an error and leaves the
\* clipboard, the history and the flag as they were; the flag, once set, is taken
\* back only by a monitor check that finds it set, which then records nothing and
\* takes the content it read as last seen, whoever put it on the clipboard.
C12_FailedWriteLeavesFlag ==
    [][/\ \A t \in Commands :
            (pc[t] = "copy_write" /\ pc'[t] = "idle") =>
                \/ /\ ret'[t] = <<"ok">>
                   /\ clipboard' = content[t]
                   /\ write_failed' = write_failed
                \/ /\ ret'[t] = <<"err">>
                   /\ write_failed'
                   /\ clipboard' = clipboard
                   /\ history' = history
                   /\ ignore' = ignore
       /\ (ignore /\ ~ignore') =>
            \E m \in Monitors :
                /\ pc[m] = "check_ignore" /\ pc'[m] = "poll"
                /\ last'[m] = content[m]
                /\ history' = history
                /\ emitted' = emitted
      ]_vars

\* The only copy_to_clipboard failed to write, and its flag made a monitor pass
\* over a text that the user had copied.
C12_Witness ==
    /\ write_failed
    /\ arms = 1
    /\ gate = "hit"
    /\ clip_src = "user"
    /\ history = <<>>
    /\ \E m \in Monitors :
        pc[m] = "poll" /\ content_src[m] = "user" /\ last[m] = clipboard

\* C13: clear_clipboard_history leaves the history empty and, when it was empty
\* already, leaves everything shared as it was; a snapshot taken while nothing was
\* pushed since the clear is empty; and a thread that reaches the duplicate check
\* on an empty history pushes its content, whatever the front was before the clear.
C13_ClearThenInsert ==
    [][/\ \A t \in Commands :
            /\ (pc[t] = "clear" /\ pc'[t] = "idle") =>
                    /\ history' = <<>>
                    /\ ret'[t] = <<"ok">>
                    /\ history = <<>> =>
                          <<history, ignore, clipboard, emitted>>' =
                          <<history, ignore, clipboard, emitted>>
            /\ (pc[t] = "get_read" /\ pc'[t] = "idle" /\ inserted = <<>>) =>
                    ret'[t] = <<"history", <<>>>>
       /\ \A t \in Threads :
            (pc[t] \in {"front", "add_front"} /\ pc'[t] # pc[t] /\ history = <<>>) =>
                    /\ Len(history') = 1
                    /\ history'[1].content = content[t]
      ]_vars

\* A monitor pushed "a", the history was cleared, and add_to_history("a") has
\* pushed "a" again as the only entry.
C13_Witness ==
    /\ ops = 3
    /\ mon_pushed = <<A>>
    /\ inserted = <<A>>
    /\ Len(history) = 1
    /\ \E t \in Commands : pc[t] = "add_cap"

\* The positions at which a thread holds the history Mutex, and the flag's Mutex.
HistoryHolders == {"front", "cap", "emit", "get_read", "add_front", "add_cap", "clear"}
IgnoreHolders == {"check_ignore", "copy_arm"}

\* C14: a thread holds the history Mutex exactly at its positions inside a history
\* critical section and the flag's Mutex exactly at its positions inside a flag
\* critical section, so no thread holds or awaits one while it holds the other; and
\* under fair scheduling every invoked command returns and every iteration of a
\* monitor loop comes back to its poll.
C14_NoBlockingForever ==
    /\ [](\A t \in Threads :
            /\ (history_lock = t) <=> (pc[t] \in HistoryHolders)
            /\ (ignore_lock = t) <=> (pc[t] \in IgnoreHolders))
    /\ \A t \in Commands : (pc[t] # "idle") ~> (pc[t] = "idle")
    /\ \A m \in Monitors : (pc[m] \notin {"off", "poll"}) ~> (pc[m] = "poll")

\* A command and a loop wait for the history Mutex that the other loop holds.
C14_Witness ==
    /\ history_lock \in Monitors
    /\ \E t \in Commands : pc[t] \in {"add_lock", "get_lock", "clear_lock"}
    /\ \E m \in Monitors : pc[m] = "lock_history"

\* C15: the ids of the entries of the history are distinct and grow from the
\* oldest entry to the newest.
C15_IdsStrictlyIncrease ==
    \A i, j \in 1..Len(history) : i < j => history[i].id > history[j].id

\* C16: an iteration of a monitor loop that got past the flag ends with the
\* content it read as last_clipboard_content, whether it pushed it or found it at
\* the front.
C16_LastSeenUpdated ==
    [][\A m \in Monitors :
        (pc[m] \in {"front", "emit"} /\ pc'[m] = "poll") => last'[m] = content[m]
      ]_vars

\* C17: a check that finds the flag set leaves the history and the events as they
\* were, resets the flag, takes the content read as last seen and ends the
\* iteration; and a poll that finds the last seen content on the clipboard goes
\* no further.
C17_SuppressedIteration ==
    [][\A m \in Monitors :
        /\ (pc[m] = "check_ignore" /\ pc'[m] # "check_ignore" /\ ignore) =>
                /\ history' = history
                /\ emitted' = emitted
                /\ clipboard' = clipboard
                /\ ~ignore'
                /\ last'[m] = content[m]
                /\ pc'[m] = "poll"
        /\ (pc[m] = "poll" /\ clipboard = last[m]) => pc'[m] = "poll"
      ]_vars

\* The flag was found set for the text that is still on the clipboard; nothing
\* was recorded or announced.
C17_Witness ==
    /\ gate = "hit"
    /\ hits = 1
    /\ history = <<>>
    /\ emitted = <<>>
    /\ ~ignore
    /\ \E m \in Monitors : pc[m] = "poll" /\ last[m] = clipboard /\ NonBlank(clipboard)

\* C18: a monitor at its poll keeps its last seen content and goes on to the flag
\* only with a clipboard text that is not blank and differs from the last seen one,
\* and then changes nothing shared; with any other text, or a failed read, the
\* iteration changes nothing at all and the loop stays at its poll.
C18_IdlePollNoEffect ==
    [][\A m \in Monitors :
        pc[m] = "poll" =>
            /\ last'[m] = last[m]
            /\ pc'[m] \in {"poll", "lock_ignore"}
            /\ pc'[m] = "lock_ignore" =>
                    /\ clipboard # last[m]
                    /\ NonBlank(clipboard)
                    /\ content'[m] = clipboard
                    /\ <<history, ignore, emitted, clipboard>>' =
                       <<history, ignore, emitted, clipboard>>
      ]_vars

\* The flag is set and stays set while a loop polls the text it saw last.
C18_Witness ==
    /\ ignore
    /\ clip_src = "copy"
    /\ \E m \in Monitors :
        /\ pc[m] = "poll"
        /\ clipboard = last[m]
        /\ NonBlank(clipboard)
    /\ \A t \in Commands : pc[t] = "idle"

\* The content is at the front of the history and has been announced.
Recorded(y) ==
    /\ history # <<>>
    /\ history[1].content = y
    /\ \E i \in 1..Len(emitted) : emitted[i] = y

\* A call of add_to_history with the content is in progress.
Adding(y) ==
    \E t \in Commands : pc[t] \in {"add_lock", "add_front", "add_cap"} /\ content[t] = y

\* The clipboard holds a text that is not blank and is neither the loop's last
\* seen content nor the content of the front entry, and the flag is clear.
Pending(m, y) ==
    /\ pc[m] # "off"
    /\ clipboard = y
    /\ NonBlank(y)
    /\ y # last[m]
    /\ history # <<>> => history[1].content # y
    /\ ~ignore

\* C19 as stated: a pending text is recorded, unless the clipboard changes or the
\* flag is set first.
C19_PendingIsRecorded ==
    \A m \in Monitors : \A y \in Contents :
        Pending(m, y) ~> (Recorded(y) \/ clipboard # y \/ ignore)

\* C19: a pending text is recorded, unless the clipboard changes, the flag is set
\* or add_to_history is called with that text first.
C19_PendingIsRecordedUnlessAdded ==
    \A m \in Monitors : \A y \in Contents :
        Pending(m, y) ~> (Recorded(y) \/ clipboard # y \/ ignore \/ Adding(y))

\* The user's copy that followed a suppressed own write has been recorded.
C19_Witness ==
    /\ hits = 1
    /\ clip_src = "user"
    /\ ~ignore
    /\ Recorded(clipboard)
    /\ Len(history) = 1
    /\ \A t \in Commands : pc[t] = "idle"

\* The store after add_item_to_history has run on it with a content and a clock.
add_item_to_history(h, c, t) ==
    IF trim_is_empty(c) \/ is_duplicate(h, c)
    THEN h
    ELSE pop_back_over_max(push_front(h, new_item(h, c, t)))

\* The store after the body of a monitor iteration that got past the flag.
monitor_insertion(h, c, t) ==
    IF trim_is_empty(c) \/ mon_is_duplicate(h, c)
    THEN h
    ELSE mon_pop_back_over_max(push_front(h, mon_new_item(h, c, t)))

\* C20: on every history reached, with every content and clock, the insertion of
\* the monitor loop rejects exactly what add_item_to_history rejects and leaves the
\* same history; each step of a loop on the history is the step add_item_to_history
\* takes there; and a loop announces its insertion while a command announces none.
C20_SameInsertion ==
    /\ [](\A c \in Contents : \A t \in 0..MaxClock :
            /\ mon_is_duplicate(history, c) <=> is_duplicate(history, c)
            /\ monitor_insertion(history, c, t) = add_item_to_history(history, c, t))
    /\ [][/\ \A m \in Monitors :
                /\ (pc[m] = "poll" /\ pc'[m] = "lock_ignore") => NonBlank(content'[m])
                /\ (pc[m] = "front" /\ pc'[m] = "poll") =>
                        is_duplicate(history, content[m]) /\ history' = history
                /\ (pc[m] = "front" /\ pc'[m] = "cap") =>
                        /\ ~is_duplicate(history, content[m])
                        /\ history' = push_front(history,
                                          new_item(history, content[m], timestamp[m]))
                /\ (pc[m] = "cap" /\ pc'[m] = "emit") =>
                        history' = pop_back_over_max(history)
                /\ (pc[m] = "emit" /\ pc'[m] = "poll") =>
                        emitted' = Append(emitted, content[m])
          /\ \A t \in Commands :
                /\ (pc[t] = "idle" /\ pc'[t] = "add_lock") => NonBlank(content'[t])
                /\ (pc[t] \in {"add_lock", "add_front", "add_cap"} /\ pc'[t] # pc[t]) =>
                        emitted' = emitted
      ]_vars

\* A loop has pushed onto a full history after add_item_to_history filled it, and
\* the oldest entry is gone.
C20_Witness ==
    /\ \E m \in Monitors : pc[m] = "emit"
    /\ Len(history) = MAX
    /\ Len(mon_pushed) = 1
    /\ Len(inserted) = MAX + 1

====
